---- MODULE Spec2Model ----
(***************************************************************************)
(* Inbound triage and auto-reply pipeline of the BlueBubbles/GPT helper    *)
(* (Andree_Fundraiser_MartinHS_iPhone.py) and of the relay webhook         *)
(* (vm_imessge_webhook.py).                                                *)
(*                                                                         *)
(* A text is a sequence of tokens: a token is either a whitespace run " "  *)
(* or a maximal run of word characters (a word, in some letter case).      *)
(* time.time() is the integer clock `now`; it never runs backwards.        *)
(***************************************************************************)
EXTENDS Integers, Sequences, FiniteSets, TLC

\* ------------------------------------------------------------------ bounds
MaxTime   == 2      \* the clock stops advancing here
MaxEvents == 2      \* webhook events handled in one behaviour
MaxRows   == 3      \* rows of a bulk-send CSV file
MaxLen    == 3      \* tokens of a text given to faq_router on its own

\* ------------------------------------------------------------------ inputs
\* the values RATE_WINDOW_SEC and DUP_WINDOW_SEC are configured with
Windows == {1, 2}

\* Python's None where a reply is expected
None == [kind |-> "none"]

\* handle.normalized of the inbound payload; "" is a missing handle
Senders == {"+1a", "+1v"}
SenderInputs == Senders \cup {""}

\* IMESSAGE_VIP_EXCLUDE: the configured exclusion set
IMESSAGE_VIP_EXCLUDE == {"+1v"}
VIP_SKIP == {"+1v"}

\* message.text of the inbound payload; <<>> is a missing or empty text
Texts == { <<>>, <<"hi">>, <<" ", "Hi">>, <<"zzz">> }

\* ------------------------------------------------------------- str helpers
IsSpace(tok) == tok = " "

\* str.lower(), token by token
LowerTok(tok) ==
    CASE tok = "Hi"     -> "hi"
      [] tok = "HI"     -> "hi"
      [] tok = "Thanks" -> "thanks"
      [] tok = "Zzz"    -> "zzz"
      [] OTHER          -> tok

lower(t) == [i \in 1..Len(t) |-> LowerTok(t[i])]

RECURSIVE lstrip(_)
lstrip(t) == IF t # <<>> /\ IsSpace(Head(t)) THEN lstrip(Tail(t)) ELSE t

RECURSIVE rstrip(_)
rstrip(t) ==
    IF t # <<>> /\ IsSpace(t[Len(t)]) THEN rstrip(SubSeq(t, 1, Len(t) - 1)) ELSE t

\* str.strip()
strip(t) == rstrip(lstrip(t))

\* ------------------------------------------------------------------- state
VARIABLES
    now,               \* time.time()
    RATE_WINDOW_SEC,   \* int(os.getenv("RATE_WINDOW_SEC"))
    DUP_WINDOW_SEC,    \* int(os.getenv("DUP_WINDOW_SEC"))
    _last_seen_ts,     \* phone -> last timestamp (a dict; missing reads 0)
    _last_seen_msg,    \* (phone, text) -> timestamp (a dict)
    inbound_log,       \* rows of IMESSAGE_INBOUND_LOG
    outbound_log,      \* rows of IMESSAGE_SENT_LOG
    pc,                \* position of the webhook handler
    cur,               \* the request being handled
    ask,               \* ask_openai's loop state
    ev,                \* record of the request being (or last) handled
    hist,              \* summaries of the webhook events handled, oldest first
    bulk,              \* bulk_send's rows, range, position and output
    threads            \* the webhook requests being handled in parallel

vars == << now, RATE_WINDOW_SEC, DUP_WINDOW_SEC, _last_seen_ts, _last_seen_msg,
           inbound_log, outbound_log, pc, cur, ask, ev, hist, bulk, threads >>

\* ----------------------------------------------------------- anti-spam guard
\* _last_seen_ts[phone] on a defaultdict(float): a missing key reads 0.0 and
\* is inserted with that value
ts_default(m, phone) ==
    [p \in DOMAIN m \cup {phone} |-> IF p \in DOMAIN m THEN m[p] ELSE 0]

\* too_soon(phone) at time t: the returned value and the map it leaves
too_soon(m, phone, t) ==
    LET m0 == ts_default(m, phone) IN
    IF t - m0[phone] < RATE_WINDOW_SEC
    THEN [ret |-> TRUE,  ts |-> m0]
    ELSE [ret |-> FALSE, ts |-> [m0 EXCEPT ![phone] = t]]

\* key = (phone, (text or "").strip().lower())
dup_key_raw(phone, text) == << phone, text >>

dup_key(phone, text) == << phone, lower(strip(text)) >>

\* _last_seen_msg.get(key, 0.0)
msg_get(m, key) == IF key \in DOMAIN m THEN m[key] ELSE 0

msg_put(m, key, t) == [k \in DOMAIN m \cup {key} |-> IF k = key THEN t ELSE m[k]]

\* (a variant that never records the key)
is_duplicate_forgets(m, phone, text, t) ==
    LET key == dup_key(phone, text) IN
    IF t - msg_get(m, key) < DUP_WINDOW_SEC
    THEN [ret |-> TRUE,  msg |-> m]
    ELSE [ret |-> FALSE, msg |-> m]

\* is_duplicate(phone, text) at time t: the returned value and the map it leaves
is_duplicate(m, phone, text, t) ==
    LET key == dup_key(phone, text) IN
    IF t - msg_get(m, key) < DUP_WINDOW_SEC
    THEN [ret |-> TRUE,  msg |-> m]
    ELSE [ret |-> FALSE, msg |-> msg_put(m, key, t)]

\* ------------------------------------------------------- language detection
\* tokens that contain one of is_spanish's marker substrings
\* (an accented letter is written as the letter followed by ')
SpanishMarked ==
    { "que'", "como", "co'mo", "cua'nto", "cuanto", "do'nde", "tarjeta",
      "mexicana", "donar", "donacio'n", "pago", "ayudar", "compartir",
      "deducible" }

\* re.search of one pattern: its words in a row, \s+ between them, \b around
Match(patt, txt) ==
    \E p \in 1..Len(txt) :
        \A k \in 1..Len(patt) :
            /\ p + 2 * (k - 1) <= Len(txt)
            /\ txt[p + 2 * (k - 1)] = patt[k]
            /\ k > 1 => IsSpace(txt[p + 2 * k - 3])

is_spanish(text) ==
    LET t == lower(text) IN
    \/ \E i \in 1..Len(t) : t[i] \in SpanishMarked
    \/ Match(<<"para", "que">>, t)

\* --------------------------------------------------------------- FAQ router
\* each pattern list, alternatives and character classes expanded
p_money_for ==
    { <<"what", "is", "the", "money", "for">>, <<"what", "is", "it", "for">>,
      <<"purpose">>, <<"para", "que'", "es", "el", "dinero">>,
      <<"para", "que", "es", "el", "dinero">>, <<"para", "que'", "es">> }

p_amount ==
    { <<"how", "much", "should", "i", "donate">>, <<"how", "much">>,
      <<"amount">>, <<"minimum">>,
      <<"cuanto", "debo", "donar">>, <<"cuanto", "puedo", "donar">>,
      <<"cua'nto", "debo", "donar">>, <<"cua'nto", "puedo", "donar">>,
      <<"monto">> }

p_mex_card ==
    { <<"mexican", "card">>, <<"mexico", "card">>, <<"works", "in", "mexico">>,
      <<"tarjeta", "mexicana">>, <<"funciona", "en", "mexico">>,
      <<"funciona", "en", "me'xico">>, <<"acepta", "tarjeta">> }

p_about_andree ==
    { <<"who", "is", "andree">>, <<"tell", "me", "about", "andree">>,
      <<"acerca", "de", "andree">>, <<"quin", "es", "andree">>,
      <<"que'n", "es", "andree">> }

p_tax ==
    { <<"tax", "deductible">>, <<"tax">>, <<"receipt">>, <<"deducible">>,
      <<"recibo">>, <<"factura">> }

p_deadline ==
    { <<"deadline">>, <<"when", "does", "it", "end">>, <<"by", "when">>,
      <<"goal">>, <<"meta">>, <<"fecha", "limite">>, <<"fecha", "li'mite">>,
      <<"cuando", "termina">>, <<"cua'ndo", "termina">> }

p_how_donate ==
    { <<"how", "do", "i", "donate">>, <<"donate">>, <<"donation">>, <<"link">>,
      <<"como", "donar">>, <<"co'mo", "donar">>, <<"enlace">>,
      <<"donacion">>, <<"donacio'n">> }

p_share ==
    { <<"can", "i", "share">>, <<"share">>, <<"puedo", "compartir">>,
      <<"compartir">> }

p_thanks == { <<"thanks">>, <<"thank", "you">>, <<"gracias">> }

p_greeting == { <<"hi">>, <<"hello">>, <<"hey">>, <<"hola">>, <<"holo">>, <<"buenas">> }

\* (a variant that tries the greeting before the thanks)
FaqOrder_greeting_first ==
    << [cat |-> "money_for",    patts |-> p_money_for],
       [cat |-> "amount",       patts |-> p_amount],
       [cat |-> "mex_card",     patts |-> p_mex_card],
       [cat |-> "about_andree", patts |-> p_about_andree],
       [cat |-> "tax",          patts |-> p_tax],
       [cat |-> "deadline",     patts |-> p_deadline],
       [cat |-> "how_donate",   patts |-> p_how_donate],
       [cat |-> "share",        patts |-> p_share],
       [cat |-> "greeting",     patts |-> p_greeting],
       [cat |-> "thanks",       patts |-> p_thanks] >>

\* the categories in the order of faq_router's if-chain
FaqOrder ==
    << [cat |-> "money_for",    patts |-> p_money_for],
       [cat |-> "amount",       patts |-> p_amount],
       [cat |-> "mex_card",     patts |-> p_mex_card],
       [cat |-> "about_andree", patts |-> p_about_andree],
       [cat |-> "tax",          patts |-> p_tax],
       [cat |-> "deadline",     patts |-> p_deadline],
       [cat |-> "how_donate",   patts |-> p_how_donate],
       [cat |-> "share",        patts |-> p_share],
       [cat |-> "thanks",       patts |-> p_thanks],
       [cat |-> "greeting",     patts |-> p_greeting] >>

\* def m(patts): any(re.search(p, txt) for p in patts)
m(patts, txt) == \E p \in patts : Match(p, txt)

\* the canned reply: the category's template, in Spanish or in English
faq_router(user_text, sms) ==
    LET txt == lower(strip(user_text))
        es  == is_spanish(txt)
        hit == { i \in 1..Len(FaqOrder) : m(FaqOrder[i].patts, txt) }
    IN  IF sms /\ hit # {}
        THEN LET first == CHOOSE i \in hit : \A j \in hit : i <= j
             IN  [kind |-> "faq", cat |-> FaqOrder[first].cat, es |-> es]
        ELSE None

\* ------------------------------------------------------------ configuration
PRIMARY_MODEL  == "gpt-5"
FALLBACK_MODEL == "gpt-5-mini"
models_to_try  == << PRIMARY_MODEL, FALLBACK_MODEL >>
max_retries    == 2

\* what client.responses.create can do on one call
ProviderResults ==
    { "text", "empty", "RateLimitError", "APITimeoutError", "APIError", "Exception" }

\* len(answer) of a generated text
AnswerLens == { 500, 501 }

\* what the gateway can do on one POST: a 2xx with a JSON (or empty) body, a
\* non-2xx status or a transport error, a 2xx whose body is not JSON
GatewayResults == { "ok", "http_error", "bad_body" }

\* ------------------------------------------------------------- CSV helpers
\* append_csv(path, headers, row); a row is kept without its timestamp column
append_csv(log, row) == Append(log, row)

\* -------------------------------------------------------------- outbound send
\* send_imessage(to_e164, body) when the gateway answers g at time t: whether
\* it returned normally (else it raised) and the outbound log it leaves
send_imessage(log, to, body, g, t) ==
    IF g = "ok"
    THEN [ ok  |-> TRUE,
           log |-> append_csv(log, [to |-> to, body |-> body]) ]
    ELSE [ ok |-> FALSE, log |-> log ]

\* the text ask_openai returns: the output_text of model, n characters long
\* (full); len is the length of the text as it stands and keep how many of the
\* leading characters of the output_text it holds
generated_by_primary(model, n) ==
    [kind |-> "gen", model |-> PRIMARY_MODEL, full |-> n, len |-> n, keep |-> n,
     ellipsis |-> FALSE]

generated(model, n) ==
    [kind |-> "gen", model |-> model, full |-> n, len |-> n, keep |-> n,
     ellipsis |-> FALSE]

\* (a variant that cuts at the cap and then adds the ellipsis)
truncate_after_cap(answer) ==
    IF answer.len > 500
    THEN [answer EXCEPT !.keep = 500, !.len = 500 + 3, !.ellipsis = TRUE]
    ELSE answer

\* if len(answer) > 500: answer = answer[:497] + "..."
truncate(answer) ==
    IF answer.len > 500
    THEN [answer EXCEPT !.keep = 497, !.len = 497 + 3, !.ellipsis = TRUE]
    ELSE answer

\* ---------------------------------------------------------------- the state
NoRequest == [sender |-> "", text |-> <<>>, reply |-> None]
NoAsk     == [model |-> 0, attempt |-> 0, last_err |-> ""]

\* the record kept of one request: what was called, in order, and what came
\* of it (status 0: no response yet)
NewEvent(endpoint, sender, text) ==
    [ endpoint |-> endpoint, sender |-> sender, text |-> text,
      calls |-> <<>>, outcome |-> "RECEIVED", done |-> FALSE, status |-> 0,
      sent_ok |-> FALSE, body |-> None, in_rows |-> 0, out_rows |-> 0,
      t_rate |-> -1, r_rate |-> FALSE, t_dup |-> -1, r_dup |-> FALSE,
      fresh |-> FALSE, ls_before |-> -1, ls_after |-> -1,
      tries |-> <<>>, err |-> "", gw |-> "none", pre |-> <<>> ]

\* what hist keeps of a handled webhook event
Summary(e) ==
    [ sender |-> e.sender, text |-> e.text, sent_ok |-> e.sent_ok,
      in_rows |-> e.in_rows, out_rows |-> e.out_rows,
      t_rate |-> e.t_rate, r_rate |-> e.r_rate,
      t_dup |-> e.t_dup, r_dup |-> e.r_dup, fresh |-> e.fresh,
      ls_before |-> e.ls_before, ls_after |-> e.ls_after ]

NoEvent == [NewEvent("none", "", <<>>) EXCEPT !.done = TRUE]

\* no bulk_send is running
NoBulk ==
    [ rows |-> <<>>, start |-> 0, end |-> 0, i |-> 0, dry_run |-> FALSE,
      printed |-> <<>>, sends |-> <<>>, raised |-> "" ]

Init ==
    /\ now = 0
    /\ RATE_WINDOW_SEC \in Windows
    /\ DUP_WINDOW_SEC \in Windows
    /\ _last_seen_ts = << >>
    /\ _last_seen_msg = << >>
    /\ inbound_log = << >>
    /\ outbound_log = << >>
    /\ pc = "idle"
    /\ cur = NoRequest
    /\ ask = NoAsk
    /\ ev = NoEvent
    /\ hist = << >>
    /\ bulk = NoBulk
    /\ threads = << >>

\* return ("ok", 204) at the end of the event recorded as e
Finish(e, outcome) ==
    LET e1 == [e EXCEPT !.outcome = outcome, !.done = TRUE, !.status = 204,
                        !.ls_after = ts_default(_last_seen_ts', e.sender)[e.sender]]
    IN  /\ pc' = "done"
        /\ cur' = NoRequest
        /\ ask' = NoAsk
        /\ ev' = e1
        /\ hist' = Append(hist, Summary(e1))

Called(e, op) == [e EXCEPT !.calls = Append(@, op)]

\* one client.responses.create call on model, answered r
Tried(e, model, r) == [e EXCEPT !.tries = Append(@, [model |-> model, r |-> r])]

\* ------------------------------------------------- imessage_webhook, by step
\* request.get_json raises: return ("bad json", 400)
BadJson ==
    /\ UNCHANGED << bulk, threads >>
    /\ pc = "idle"
    /\ ev' = [NewEvent("webhook", "", <<>>) EXCEPT
                 !.outcome = "BAD-JSON", !.done = TRUE, !.status = 400]
    /\ pc' = "done"
    /\ UNCHANGED << now, RATE_WINDOW_SEC, DUP_WINDOW_SEC, _last_seen_ts,
                    _last_seen_msg, inbound_log, outbound_log, cur, ask, hist >>

\* the two maps and the two logs as they stand
Snapshot == << _last_seen_ts, _last_seen_msg, inbound_log, outbound_log >>

\* the body parses to an object whose "data" is null (or any value that is
\* not an object): (evt or {}).get("data", {}) returns it as it is, and
\* data.get("message") raises AttributeError, which nothing catches: the
\* server answers 500
NullData ==
    /\ UNCHANGED << bulk, threads >>
    /\ pc = "idle"
    /\ ev' = [NewEvent("webhook", "", <<>>) EXCEPT
                 !.outcome = "UNHANDLED-ERROR", !.done = TRUE, !.status = 500,
                 !.err = "AttributeError", !.pre = Snapshot]
    /\ pc' = "done"
    /\ UNCHANGED << now, RATE_WINDOW_SEC, DUP_WINDOW_SEC, _last_seen_ts,
                    _last_seen_msg, inbound_log, outbound_log, cur, ask, hist >>

\* if not sender or not text: return ("ok", 204)
EmptyPayload ==
    /\ UNCHANGED << bulk, threads >>
    /\ pc = "idle"
    /\ \E sender \in SenderInputs, text \in Texts :
          /\ sender = "" \/ text = << >>
          /\ ev' = [NewEvent("webhook", "", <<>>) EXCEPT
                       !.outcome = "EMPTY", !.done = TRUE, !.status = 204,
                       !.pre = Snapshot]
    /\ pc' = "done"
    /\ UNCHANGED << now, RATE_WINDOW_SEC, DUP_WINDOW_SEC, _last_seen_ts,
                    _last_seen_msg, inbound_log, outbound_log, cur, ask, hist >>

\* (a variant that logs only what passes the VIP gate)
Receive_logs_after_gating ==
    /\ UNCHANGED << bulk, threads >>
    /\ pc = "idle"
    /\ Len(hist) < MaxEvents
    /\ \E sender \in SenderInputs, text \in Texts :
          /\ sender # "" /\ text # << >>
          /\ inbound_log' = IF sender \in IMESSAGE_VIP_EXCLUDE THEN inbound_log
                            ELSE append_csv(inbound_log, [from |-> sender, text |-> text])
          /\ cur' = [sender |-> sender, text |-> text, reply |-> None]
          /\ ev' = [Called(NewEvent("webhook", sender, text), "append_inbound")
                        EXCEPT !.in_rows = Len(inbound_log') - Len(inbound_log),
                               !.ls_before = ts_default(_last_seen_ts, sender)[sender]]
    /\ pc' = "vip"
    /\ UNCHANGED << now, RATE_WINDOW_SEC, DUP_WINDOW_SEC, _last_seen_ts,
                    _last_seen_msg, outbound_log, ask, hist >>

\* a payload with a sender and a text: the inbound row is appended
Receive ==
    /\ UNCHANGED << bulk, threads >>
    /\ pc = "idle"
    /\ Len(hist) < MaxEvents
    /\ \E sender \in SenderInputs, text \in Texts :
          /\ sender # "" /\ text # << >>
          /\ inbound_log' = append_csv(inbound_log,
                 [from |-> sender, text |-> text])
          /\ cur' = [sender |-> sender, text |-> text, reply |-> None]
          /\ ev' = [Called(NewEvent("webhook", sender, text), "append_inbound")
                        EXCEPT !.in_rows = Len(inbound_log') - Len(inbound_log),
                               !.ls_before = ts_default(_last_seen_ts, sender)[sender]]
    /\ pc' = "vip"
    /\ UNCHANGED << now, RATE_WINDOW_SEC, DUP_WINDOW_SEC, _last_seen_ts,
                    _last_seen_msg, outbound_log, ask, hist >>

\* sender in IMESSAGE_VIP_EXCLUDE
is_vip_never(sender) == FALSE

is_vip(sender) == sender \in IMESSAGE_VIP_EXCLUDE

\* if sender in IMESSAGE_VIP_EXCLUDE: return ("ok", 204)
CheckVip ==
    /\ UNCHANGED << bulk, threads >>
    /\ pc = "vip"
    /\ UNCHANGED << now, RATE_WINDOW_SEC, DUP_WINDOW_SEC, _last_seen_ts,
                    _last_seen_msg, inbound_log, outbound_log >>
    /\ IF is_vip(cur.sender)
       THEN Finish(Called(ev, "vip"), "VIP-EXCLUDED")
       ELSE /\ pc' = "too_soon"
            /\ ev' = Called(ev, "vip")
            /\ UNCHANGED << cur, ask, hist >>

\* (a variant without the short circuit of `or`: is_duplicate runs anyway)
TooSoon_no_short_circuit ==
    /\ UNCHANGED << bulk, threads >>
    /\ pc = "too_soon"
    /\ LET r == too_soon(_last_seen_ts, cur.sender, now)
           d == is_duplicate(_last_seen_msg, cur.sender, cur.text, now)
           e == [Called(ev, "too_soon") EXCEPT
                    !.t_rate = now, !.r_rate = r.ret,
                    !.fresh = cur.sender \notin DOMAIN _last_seen_ts]
       IN  /\ _last_seen_ts' = r.ts
           /\ UNCHANGED << now, RATE_WINDOW_SEC, DUP_WINDOW_SEC,
                           inbound_log, outbound_log >>
           /\ IF r.ret
              THEN /\ _last_seen_msg' = d.msg
                   /\ Finish([Called(e, "is_duplicate") EXCEPT
                                 !.t_dup = now, !.r_dup = d.ret], "GUARD-SUPPRESSED")
              ELSE /\ _last_seen_msg' = _last_seen_msg
                   /\ pc' = "is_duplicate"
                   /\ ev' = e
                   /\ UNCHANGED << cur, ask, hist >>

\* if too_soon(sender) ...: return ("ok", 204)
TooSoon ==
    /\ UNCHANGED << bulk, threads >>
    /\ pc = "too_soon"
    /\ LET r == too_soon(_last_seen_ts, cur.sender, now)
           e == [Called(ev, "too_soon") EXCEPT
                    !.t_rate = now, !.r_rate = r.ret,
                    !.fresh = cur.sender \notin DOMAIN _last_seen_ts]
       IN  /\ _last_seen_ts' = r.ts
           /\ UNCHANGED << now, RATE_WINDOW_SEC, DUP_WINDOW_SEC, _last_seen_msg,
                           inbound_log, outbound_log >>
           /\ IF r.ret
              THEN Finish(e, "GUARD-SUPPRESSED")
              ELSE /\ pc' = "is_duplicate"
                   /\ ev' = e
                   /\ UNCHANGED << cur, ask, hist >>

\* ... or is_duplicate(sender, text): return ("ok", 204)
IsDuplicate ==
    /\ UNCHANGED << bulk, threads >>
    /\ pc = "is_duplicate"
    /\ LET r == is_duplicate(_last_seen_msg, cur.sender, cur.text, now)
           e == [Called(ev, "is_duplicate") EXCEPT !.t_dup = now, !.r_dup = r.ret]
       IN  /\ _last_seen_msg' = r.msg
           /\ UNCHANGED << now, RATE_WINDOW_SEC, DUP_WINDOW_SEC, _last_seen_ts,
                           inbound_log, outbound_log >>
           /\ IF r.ret
              THEN Finish(e, "GUARD-SUPPRESSED")
              ELSE /\ pc' = "faq"
                   /\ ev' = e
                   /\ UNCHANGED << cur, ask, hist >>

\* (a variant that falls through to the model after a FAQ match)
FaqRoute_falls_through ==
    /\ UNCHANGED << bulk, threads >>
    /\ pc = "faq"
    /\ pc' = "ask"
    /\ cur' = cur
    /\ ev' = Called(Called(ev, "faq_router"), "ask_openai")
    /\ ask' = [model |-> 1, attempt |-> 1, last_err |-> ""]
    /\ UNCHANGED << now, RATE_WINDOW_SEC, DUP_WINDOW_SEC, _last_seen_ts,
                    _last_seen_msg, inbound_log, outbound_log, hist >>

\* canned = faq_router(text, sms=True); else prompt = build_prompt(...) and
\* ask_openai starts with the primary model, attempt 1
FaqRoute ==
    /\ UNCHANGED << bulk, threads >>
    /\ pc = "faq"
    /\ LET canned == faq_router(cur.text, TRUE) IN
          IF canned # None
          THEN /\ pc' = "send_faq"
               /\ cur' = [cur EXCEPT !.reply = canned]
               /\ ev' = Called(ev, "faq_router")
               /\ ask' = ask
          ELSE /\ pc' = "ask"
               /\ cur' = cur
               /\ ev' = Called(Called(ev, "faq_router"), "ask_openai")
               /\ ask' = [model |-> 1, attempt |-> 1, last_err |-> ""]
    /\ UNCHANGED << now, RATE_WINDOW_SEC, DUP_WINDOW_SEC, _last_seen_ts,
                    _last_seen_msg, inbound_log, outbound_log, hist >>

\* (a variant that sends again after a failed send)
SendFaq_retries ==
    /\ UNCHANGED << bulk, threads >>
    /\ pc = "send_faq"
    /\ \E g \in GatewayResults :
          LET r == send_imessage(outbound_log, cur.sender, cur.reply, g, now)
              e == [Called(ev, "send_imessage") EXCEPT
                        !.sent_ok = r.ok, !.body = cur.reply, !.gw = g,
                        !.out_rows = @ + Len(r.log) - Len(outbound_log)]
          IN  /\ outbound_log' = r.log
              /\ UNCHANGED << now, RATE_WINDOW_SEC, DUP_WINDOW_SEC, _last_seen_ts,
                              _last_seen_msg, inbound_log >>
              /\ IF r.ok \/ Len(e.calls) > 8
                 THEN Finish(e, "FAQ-ANSWERED")
                 ELSE pc' = pc /\ ev' = e /\ UNCHANGED << cur, ask, hist >>

\* try: send_imessage(sender, canned) except Exception: log; return ("ok", 204)
SendFaq ==
    /\ UNCHANGED << bulk, threads >>
    /\ pc = "send_faq"
    /\ \E g \in GatewayResults :
          LET r == send_imessage(outbound_log, cur.sender, cur.reply, g, now)
              e == [Called(ev, "send_imessage") EXCEPT
                        !.sent_ok = r.ok, !.body = cur.reply, !.gw = g,
                        !.out_rows = Len(r.log) - Len(outbound_log)]
          IN  /\ outbound_log' = r.log
              /\ UNCHANGED << now, RATE_WINDOW_SEC, DUP_WINDOW_SEC, _last_seen_ts,
                              _last_seen_msg, inbound_log >>
              /\ Finish(e, "FAQ-ANSWERED")

\* ------------------------------------------------------------- ask_openai
IsTransient(r) == r \in { "RateLimitError", "APITimeoutError" }

\* the loops' next position after the current model is given up (break, or
\* the attempts are used up): the next model, or raise last_err
next_model(a, err) ==
    IF a.model < Len(models_to_try)
    THEN [model |-> a.model + 1, attempt |-> 1, last_err |-> err, go |-> "call"]
    ELSE [model |-> a.model, attempt |-> a.attempt, last_err |-> err, go |-> "raise"]

\* (a variant that retries the same model after any error)
ask_openai_retries_errors(a, r) ==
    CASE r = "text" ->
            [model |-> a.model, attempt |-> a.attempt, last_err |-> a.last_err,
             go |-> "return"]
      [] OTHER ->
            IF a.attempt < max_retries
            THEN [model |-> a.model, attempt |-> a.attempt + 1,
                  last_err |-> IF r = "empty" THEN "APIError" ELSE r,
                  go |-> "call"]
            ELSE next_model(a, IF r = "empty" THEN "APIError" ELSE r)

\* one pass of the inner loop body, the provider answering r; an empty
\* output_text raises APIError inside the try, which leaves the inner loop
\* like any other non-transient error
ask_openai(a, r) ==
    CASE r = "text" ->
            [model |-> a.model, attempt |-> a.attempt, last_err |-> a.last_err,
             go |-> "return"]
      [] IsTransient(r) ->
            IF a.attempt < max_retries
            THEN [model |-> a.model, attempt |-> a.attempt + 1, last_err |-> r,
                  go |-> "call"]
            ELSE next_model(a, r)
      [] r = "empty" -> next_model(a, "APIError")
      [] OTHER -> next_model(a, r)

\* time.sleep(backoff) after a transient error
Slept(t) == IF t < MaxTime THEN t + 1 ELSE t

\* answer = ask_openai(prompt): one provider call per step
ProviderCall ==
    /\ UNCHANGED << bulk, threads >>
    /\ pc = "ask"
    /\ \E r \in ProviderResults :
          LET a == ask_openai(ask, r)
              e == Tried(Called(ev, models_to_try[ask.model]),
                         models_to_try[ask.model], r)
          IN  /\ now' = IF IsTransient(r) THEN Slept(now) ELSE now
              /\ UNCHANGED << RATE_WINDOW_SEC, DUP_WINDOW_SEC, _last_seen_ts,
                              _last_seen_msg, inbound_log, outbound_log >>
              /\ CASE a.go = "return" ->
                        \E n \in AnswerLens :
                           /\ pc' = "send_gen"
                           /\ cur' = [cur EXCEPT !.reply = truncate(
                                  generated(models_to_try[a.model], n))]
                           /\ ask' = NoAsk
                           /\ ev' = e
                           /\ hist' = hist
                   [] a.go = "call" ->
                        /\ pc' = "ask"
                        /\ ask' = [model |-> a.model, attempt |-> a.attempt,
                                   last_err |-> a.last_err]
                        /\ ev' = e
                        /\ UNCHANGED << cur, hist >>
                   [] OTHER ->
                        \* except Exception: logging.exception(...)
                        Finish([e EXCEPT !.err = a.last_err], "GENERATION-FAILED")

\* send_imessage(sender, answer) inside the try; return ("ok", 204)
SendGen ==
    /\ UNCHANGED << bulk, threads >>
    /\ pc = "send_gen"
    /\ \E g \in GatewayResults :
          LET r == send_imessage(outbound_log, cur.sender, cur.reply, g, now)
              e == [Called(ev, "send_imessage") EXCEPT
                        !.sent_ok = r.ok, !.body = cur.reply, !.gw = g,
                        !.out_rows = Len(r.log) - Len(outbound_log)]
          IN  /\ outbound_log' = r.log
              /\ UNCHANGED << now, RATE_WINDOW_SEC, DUP_WINDOW_SEC, _last_seen_ts,
                              _last_seen_msg, inbound_log >>
              /\ Finish(e, "GENERATED-ANSWERED")

\* ------------------------------------- vm_imessge_webhook: imessage_incoming
\* the whole handler: auth, parse, VIP skip, gpt_reply, send_via_mac
Incoming ==
    /\ UNCHANGED << bulk, threads >>
    /\ pc = "idle"
    /\ pc' = "done"
    /\ UNCHANGED << now, RATE_WINDOW_SEC, DUP_WINDOW_SEC, _last_seen_ts,
                    _last_seen_msg, inbound_log, outbound_log, cur, ask, hist >>
    /\ \/ \* abort(401)
          ev' = [NewEvent("incoming", "", <<>>) EXCEPT
                    !.outcome = "UNAUTHORIZED", !.done = TRUE, !.status = 401]
       \/ \E phone \in SenderInputs, raw \in Texts :
             LET text == strip(raw)
                 e0   == NewEvent("incoming", phone, <<>>)
             IN  IF phone = "" \/ text = << >>
                 THEN ev' = [NewEvent("incoming", "", <<>>) EXCEPT
                                !.outcome = "EMPTY", !.done = TRUE, !.status = 200]
                 ELSE IF phone \in VIP_SKIP
                 THEN ev' = [Called(e0, "vip") EXCEPT
                                !.outcome = "VIP-EXCLUDED", !.done = TRUE,
                                !.status = 200]
                 ELSE \E r \in { "gpt_error", "send_error", "ok" } :
                         LET e1 == Called(Called(e0, "vip"), "gpt_reply")
                             e2 == IF r = "gpt_error" THEN e1
                                   ELSE Called(e1, "send_via_mac")
                         IN  ev' = [e2 EXCEPT
                                      !.outcome = IF r = "gpt_error"
                                                  THEN "GENERATION-FAILED"
                                                  ELSE "GENERATED-ANSWERED",
                                      !.sent_ok = (r = "ok"), !.done = TRUE,
                                      !.status = IF r = "ok" THEN 200 ELSE 500]

\* the response leaves; the server takes the next request
Respond ==
    /\ UNCHANGED << bulk, threads >>
    /\ pc = "done"
    /\ pc' = "idle"
    /\ ev' = NoEvent
    /\ UNCHANGED << now, RATE_WINDOW_SEC, DUP_WINDOW_SEC, _last_seen_ts,
                    _last_seen_msg, inbound_log, outbound_log, cur, ask, hist >>

\* ------------------------------------------------------------------- time
\* the clock advances between requests and between the guards' two reads of
\* time.time() (and over ask_openai's sleeps, see ProviderCall)
Tick ==
    /\ UNCHANGED << bulk, threads >>
    /\ pc \in { "idle", "is_duplicate" }
    /\ now < MaxTime
    /\ now' = now + 1
    /\ UNCHANGED << RATE_WINDOW_SEC, DUP_WINDOW_SEC, _last_seen_ts, _last_seen_msg,
                    inbound_log, outbound_log, pc, cur, ask, ev, hist >>

Next ==
    \/ BadJson
    \/ NullData
    \/ EmptyPayload
    \/ Receive
    \/ CheckVip
    \/ TooSoon
    \/ IsDuplicate
    \/ FaqRoute
    \/ SendFaq
    \/ ProviderCall
    \/ SendGen
    \/ Incoming
    \/ Respond
    \/ Tick

Spec == Init /\ [][Next]_vars


\* imessage_webhook is straight-line code around calls that return or raise
\* (each HTTP call has a timeout, each loop of ask_openai is bounded), so a
\* handler that can take its next step takes it
HandlerStep ==
    CheckVip \/ TooSoon \/ IsDuplicate \/ FaqRoute \/ SendFaq \/ ProviderCall \/ SendGen

FairSpec == Spec /\ WF_vars(HandlerStep)

\* ------------------------------------------------------------- bulk_send
\* a CSV row: its phone column ("" when the row has no phone value)
CsvRows == { [phone |-> "+1a"], [phone |-> ""] }

\* the CSV files: up to MaxRows rows
CsvFiles == UNION { [1..n -> CsvRows] : n \in 0..MaxRows }

\* --start-from
StartFroms == { -1, 0, 1 }

\* --limit: absent (None) or a row count
Limits == { [given |-> FALSE, n |-> 0] } \cup
          { [given |-> TRUE, n |-> n] : n \in 1..MaxRows }

Max(a, b) == IF a >= b THEN a ELSE b
Min(a, b) == IF a <= b THEN a ELSE b

\* start = max(start_from, 0); end = len(rows) or min(len(rows), start+limit)
bulk_range(rows, start_from, limit) ==
    LET start == Max(start_from, 0)
    IN  [ start |-> start,
          end   |-> IF limit.given THEN Min(Len(rows), start + limit.n)
                                   ELSE Len(rows) ]

\* the outreach text of a row (BODY_EN / BODY_ES with the first name)
bulk_body == [kind |-> "outreach"]

Printed(b, what) == [b EXCEPT !.printed = Append(@, [i |-> b.i, what |-> what])]

\* (a variant in which a row without a phone ends the batch)
bulk_step_skip_ends(b, log, g, t) ==
    LET row == b.rows[b.i + 1] IN
    IF row.phone = ""
    THEN [ b |-> [Printed(b, "SKIP") EXCEPT !.i = b.end], log |-> log ]
    ELSE IF b.dry_run
    THEN [ b |-> [Printed(b, "WOULD SEND") EXCEPT !.i = @ + 1], log |-> log ]
    ELSE LET r  == send_imessage(log, row.phone, bulk_body, g, t)
             b1 == [b EXCEPT !.sends = Append(@, b.i)]
         IN  IF r.ok
             THEN [ b |-> [Printed(b1, "SENT") EXCEPT !.i = @ + 1], log |-> r.log ]
             ELSE [ b |-> [b1 EXCEPT !.raised = "NameError"], log |-> r.log ]

\* one pass of the loop body at row b.i, the gateway answering g at time t:
\* a row without a phone is skipped; a dry run prints; else send_imessage is
\* called, and when it raises the except handler evaluates sys.stderr, a name
\* the module never imports, so the handler itself raises NameError, which
\* leaves the loop and bulk_send
bulk_step(b, log, g, t) ==
    LET row == b.rows[b.i + 1] IN
    IF row.phone = ""
    THEN [ b |-> [Printed(b, "SKIP") EXCEPT !.i = @ + 1], log |-> log ]
    ELSE IF b.dry_run
    THEN [ b |-> [Printed(b, "WOULD SEND") EXCEPT !.i = @ + 1], log |-> log ]
    ELSE LET r  == send_imessage(log, row.phone, bulk_body, g, t)
             b1 == [b EXCEPT !.sends = Append(@, b.i)]
         IN  IF r.ok
             THEN [ b |-> [Printed(b1, "SENT") EXCEPT !.i = @ + 1], log |-> r.log ]
             ELSE [ b |-> [b1 EXCEPT !.raised = "NameError"], log |-> r.log ]

\* main() with the bulk-send subcommand: a process of its own, which reads
\* the CSV file and computes [start, end)
BulkInit ==
    /\ now = 0
    /\ RATE_WINDOW_SEC \in Windows
    /\ DUP_WINDOW_SEC \in Windows
    /\ _last_seen_ts = << >>
    /\ _last_seen_msg = << >>
    /\ inbound_log = << >>
    /\ outbound_log = << >>
    /\ pc = "bulk"
    /\ cur = NoRequest
    /\ ask = NoAsk
    /\ ev = NoEvent
    /\ hist = << >>
    /\ threads = << >>
    /\ \E rows \in CsvFiles, start_from \in StartFroms, limit \in Limits,
          dry_run \in BOOLEAN :
          LET rg == bulk_range(rows, start_from, limit)
          IN  bulk = [ rows |-> rows, start |-> rg.start, end |-> rg.end,
                       i |-> rg.start, dry_run |-> dry_run,
                       printed |-> <<>>, sends |-> <<>>, raised |-> "" ]

\* for i in range(start, end): one row
BulkRow ==
    /\ pc = "bulk"
    /\ bulk.i < bulk.end
    /\ \E g \in GatewayResults :
          LET s == bulk_step(bulk, outbound_log, g, now)
          IN  /\ bulk' = s.b
              /\ outbound_log' = s.log
              /\ pc' = IF s.b.raised # "" THEN "bulk_done" ELSE "bulk"
    /\ UNCHANGED << now, RATE_WINDOW_SEC, DUP_WINDOW_SEC, _last_seen_ts,
                    _last_seen_msg, inbound_log, cur, ask, ev, hist, threads >>

\* the loop is over: bulk_send returns
BulkReturn ==
    /\ pc = "bulk"
    /\ bulk.i >= bulk.end
    /\ pc' = "bulk_done"
    /\ UNCHANGED << now, RATE_WINDOW_SEC, DUP_WINDOW_SEC, _last_seen_ts,
                    _last_seen_msg, inbound_log, outbound_log, cur, ask, ev, hist,
                    bulk, threads >>

BulkNext == BulkRow \/ BulkReturn

BulkSpec == BulkInit /\ [][BulkNext]_vars

\* ---------------------------------------------------- faq_router on its own
\* the tokens of the texts faq_router is applied to: " " is a run of
\* whitespace, the others are words
FaqTokens ==
    { " ", "zzz", "purpose", "amount", "tax", "goal", "donate", "share",
      "thanks", "hi", "Hi", "gracias", "hola" }

\* words and whitespace runs alternate in a text
WellFormed(t) == \A i \in 1..(Len(t) - 1) : IsSpace(t[i]) # IsSpace(t[i + 1])

\* texts that hit the categories whose patterns are all longer than MaxLen
FaqPhrases ==
    { <<"mexican", " ", "card">>, <<"tarjeta", " ", "mexicana">>,
      <<"who", " ", "is", " ", "andree">>,
      <<"who", " ", "is", " ", "andree", " ", "hi">>,
      <<"thank", " ", "you", " ", "hello">> }

FaqTexts ==
    { t \in UNION { [1..n -> FaqTokens] : n \in 0..MaxLen } : WellFormed(t) }
       \cup FaqPhrases

\* a call faq_router(user_text, sms) about to be made
FaqInit ==
    /\ now = 0
    /\ RATE_WINDOW_SEC \in Windows
    /\ DUP_WINDOW_SEC \in Windows
    /\ _last_seen_ts = << >>
    /\ _last_seen_msg = << >>
    /\ inbound_log = << >>
    /\ outbound_log = << >>
    /\ pc = "faq_call"
    /\ \E user_text \in FaqTexts, sms \in BOOLEAN :
          cur = [sender |-> "", text |-> user_text, sms |-> sms, reply |-> None]
    /\ ask = NoAsk
    /\ ev = NoEvent
    /\ hist = << >>
    /\ bulk = NoBulk
    /\ threads = << >>

\* faq_router(user_text, sms) returns
FaqCall ==
    /\ pc = "faq_call"
    /\ pc' = "faq_ret"
    /\ cur' = [cur EXCEPT !.reply = faq_router(cur.text, cur.sms)]
    /\ UNCHANGED << now, RATE_WINDOW_SEC, DUP_WINDOW_SEC, _last_seen_ts,
                    _last_seen_msg, inbound_log, outbound_log, ask, ev, hist,
                    bulk, threads >>

FaqNext == FaqCall

FaqSpec == FaqInit /\ [][FaqNext]_vars

\* ------------------------------------- imessage_webhook handled in parallel
\* app.run serves each request in a thread of its own; the guards read and
\* write the two module-level maps without a lock, so between a thread's read
\* of a map and its write another thread can run
Threads == { 1, 2 }

\* a request that has reached the guards (non-empty, sender not a VIP)
NewThread(sender, text) ==
    [ pc |-> "too_soon", sender |-> sender, text |-> text,
      t_rate |-> -1, last |-> -1, rate |-> "none",
      t_dup |-> -1, ts |-> -1, dup |-> "none" ]

ConcInit ==
    /\ now = 0
    /\ RATE_WINDOW_SEC \in Windows
    /\ DUP_WINDOW_SEC \in Windows
    /\ _last_seen_ts = << >>
    /\ _last_seen_msg = << >>
    /\ inbound_log = << >>
    /\ outbound_log = << >>
    /\ pc = "threads"
    /\ cur = NoRequest
    /\ ask = NoAsk
    /\ ev = NoEvent
    /\ hist = << >>
    /\ bulk = NoBulk
    /\ threads \in [ Threads -> { NewThread(sender, text) :
                          sender \in Senders \ IMESSAGE_VIP_EXCLUDE,
                          text \in Texts \ { <<>> } } ]

ConcUnchanged ==
    UNCHANGED << RATE_WINDOW_SEC, DUP_WINDOW_SEC, inbound_log, outbound_log, pc,
                 cur, ask, ev, hist, bulk >>

\* too_soon: now = time.time(); read _last_seen_ts[phone] (a missing key is
\* inserted with 0.0)
TooSoonRead(i) ==
    /\ threads[i].pc = "too_soon"
    /\ _last_seen_ts' = ts_default(_last_seen_ts, threads[i].sender)
    /\ threads' = [threads EXCEPT ![i].pc = "too_soon_cmp", ![i].t_rate = now,
                      ![i].last = ts_default(_last_seen_ts, threads[i].sender)
                                     [threads[i].sender]]
    /\ UNCHANGED << now, _last_seen_msg >>
    /\ ConcUnchanged

\* too_soon: compare; return True, or write _last_seen_ts[phone] = now and
\* return False
TooSoonDecide(i) ==
    /\ threads[i].pc = "too_soon_cmp"
    /\ IF threads[i].t_rate - threads[i].last < RATE_WINDOW_SEC
       THEN /\ threads' = [threads EXCEPT ![i].pc = "done", ![i].rate = "stop"]
            /\ UNCHANGED _last_seen_ts
       ELSE /\ threads' = [threads EXCEPT ![i].pc = "is_duplicate",
                                          ![i].rate = "pass"]
            /\ _last_seen_ts' = [ts_default(_last_seen_ts, threads[i].sender)
                                    EXCEPT ![threads[i].sender] = threads[i].t_rate]
    /\ UNCHANGED << now, _last_seen_msg >>
    /\ ConcUnchanged

\* is_duplicate: now = time.time(); ts = _last_seen_msg.get(key, 0.0)
IsDuplicateRead(i) ==
    /\ threads[i].pc = "is_duplicate"
    /\ threads' = [threads EXCEPT ![i].pc = "is_duplicate_cmp", ![i].t_dup = now,
                      ![i].ts = msg_get(_last_seen_msg,
                                        dup_key(threads[i].sender, threads[i].text))]
    /\ UNCHANGED << now, _last_seen_ts, _last_seen_msg >>
    /\ ConcUnchanged

\* is_duplicate: compare; return True, or write _last_seen_msg[key] = now and
\* return False
IsDuplicateDecide(i) ==
    /\ threads[i].pc = "is_duplicate_cmp"
    /\ IF threads[i].t_dup - threads[i].ts < DUP_WINDOW_SEC
       THEN /\ threads' = [threads EXCEPT ![i].pc = "done", ![i].dup = "stop"]
            /\ UNCHANGED _last_seen_msg
       ELSE /\ threads' = [threads EXCEPT ![i].pc = "done", ![i].dup = "pass"]
            /\ _last_seen_msg' =
                  msg_put(_last_seen_msg,
                          dup_key(threads[i].sender, threads[i].text),
                          threads[i].t_dup)
    /\ UNCHANGED << now, _last_seen_ts >>
    /\ ConcUnchanged

\* the clock advances while the threads run
ConcTick ==
    /\ now < MaxTime
    /\ now' = now + 1
    /\ UNCHANGED << _last_seen_ts, _last_seen_msg, threads >>
    /\ ConcUnchanged

ConcNext ==
    \/ \E i \in Threads : TooSoonRead(i)
    \/ \E i \in Threads : TooSoonDecide(i)
    \/ \E i \in Threads : IsDuplicateRead(i)
    \/ \E i \in Threads : IsDuplicateDecide(i)
    \/ ConcTick

ConcSpec == ConcInit /\ [][ConcNext]_vars

\* ================================================================== claims
Has(seq, x) == \E i \in 1..Len(seq) : seq[i] = x

Count(seq, x) == Cardinality({ i \in 1..Len(seq) : seq[i] = x })

Norm(text) == lower(strip(text))

\* ev records an event of imessage_webhook that got past the empty check
IsWebhookEvent ==
    /\ ev.endpoint = "webhook"
    /\ ev.outcome \notin { "BAD-JSON", "EMPTY", "UNHANDLED-ERROR" }

ReplyCalls ==
    { "faq_router", "ask_openai", PRIMARY_MODEL, FALLBACK_MODEL, "send_imessage",
      "gpt_reply", "send_via_mac" }

\* C1: an event whose sender is in the VIP exclusion set never causes an
\* automatic reply: while and after it is handled (by imessage_webhook or by
\* imessage_incoming) no FAQ match, no model call and no gateway send was made
\* for it, and it added no row to the outbound log.
C1_VipNeverAutoReplied ==
    ( \/ ev.endpoint = "webhook"  /\ ev.sender \in IMESSAGE_VIP_EXCLUDE
      \/ ev.endpoint = "incoming" /\ ev.sender \in VIP_SKIP )
    => /\ \A i \in 1..Len(ev.calls) : ev.calls[i] \notin ReplyCalls
       /\ ev.out_rows = 0
       /\ ~ev.sent_ok
       /\ ev.body = None
       /\ pc \in { "vip", "done" }

C1_Witness ==
    /\ pc = "done" /\ ev.endpoint = "webhook" /\ ev.sender \in IMESSAGE_VIP_EXCLUDE
    /\ ev.outcome = "VIP-EXCLUDED" /\ ev.in_rows = 1
    /\ Len(outbound_log) > 0

\* faq_router(text, sms=True) of every text a webhook event can carry
CannedFor == [text \in Texts |-> faq_router(text, TRUE)]

\* C2: an event past the VIP check and both guards gets at most one reply and
\* at most one gateway send attempt: a FAQ match means the model is never
\* called, a model reply means the FAQ did not match, and a failed send is
\* not sent again.
C2_AtMostOneReply ==
    IsWebhookEvent =>
       /\ Count(ev.calls, "send_imessage") <= 1
       /\ ev.out_rows <= 1
       /\ Has(ev.calls, "faq_router") /\ CannedFor[ev.text] # None
             => ~Has(ev.calls, "ask_openai")
                /\ ~Has(ev.calls, PRIMARY_MODEL) /\ ~Has(ev.calls, FALLBACK_MODEL)
       /\ Has(ev.calls, "ask_openai") => CannedFor[ev.text] = None
       /\ Has(ev.calls, "send_imessage") =>
             /\ pc = "done"
             /\ ev.body # None
             /\ (ev.body.kind = "faq") = ~Has(ev.calls, "ask_openai")

C2_Witness ==
    /\ pc = "done" /\ IsWebhookEvent /\ ev.outcome = "FAQ-ANSWERED"
    /\ Has(ev.calls, "send_imessage") /\ ~ev.sent_ok

\* C3: every inbound event with a sender and a text appends exactly one row
\* to the inbound log, as the first thing done for it and before any gating,
\* whatever the event's outcome.
C3_InboundLoggedOnceFirst ==
    /\ IsWebhookEvent =>
          /\ ev.in_rows = 1
          /\ ev.calls # << >> /\ ev.calls[1] = "append_inbound"
          /\ Count(ev.calls, "append_inbound") = 1
          /\ inbound_log # << >>
          /\ inbound_log[Len(inbound_log)] = [from |-> ev.sender, text |-> ev.text]
    /\ Len(inbound_log) = Len(hist) + (IF pc \in { "idle", "done" } THEN 0 ELSE 1)
    /\ \A i \in 1..Len(hist) :
          inbound_log[i] = [from |-> hist[i].sender, text |-> hist[i].text]

C3_Witness ==
    /\ pc = "done" /\ IsWebhookEvent /\ ev.outcome = "VIP-EXCLUDED"
    /\ Len(inbound_log) = 2 /\ hist[1].r_rate


Outcomes ==
    { "VIP-EXCLUDED", "GUARD-SUPPRESSED", "FAQ-ANSWERED", "GENERATED-ANSWERED",
      "GENERATION-FAILED" }

\* the order in which the handler consults its gates
GateOrder == << "append_inbound", "vip", "too_soon", "is_duplicate", "faq_router" >>

C4_OneOutcomeInOrder ==
    IsWebhookEvent =>
       /\ \A i \in 1..Len(ev.calls) : i <= Len(GateOrder) => ev.calls[i] = GateOrder[i]
       /\ (ev.outcome = "RECEIVED") = (pc \notin { "idle", "done" })
       /\ (ev.outcome \in Outcomes) = (pc = "done")
       /\ ev.done = (pc = "done")
       /\ pc = "done" =>
             /\ ev.status = 204
             /\ (ev.outcome = "VIP-EXCLUDED") = (ev.sender \in IMESSAGE_VIP_EXCLUDE)
             /\ (ev.outcome = "GUARD-SUPPRESSED")
                   = (ev.sender \notin IMESSAGE_VIP_EXCLUDE /\ (ev.r_rate \/ ev.r_dup))
             /\ ev.outcome = "FAQ-ANSWERED" =>
                   /\ CannedFor[ev.text] # None
                   /\ ev.calls = GateOrder \o << "send_imessage" >>
             /\ ev.outcome = "GENERATED-ANSWERED" =>
                   /\ CannedFor[ev.text] = None
                   /\ ev.calls[Len(ev.calls)] = "send_imessage"
                   /\ ev.body.kind = "gen"
             /\ ev.outcome = "GENERATION-FAILED" =>
                   /\ CannedFor[ev.text] = None
                   /\ ev.calls[Len(ev.calls)] = FALLBACK_MODEL
                   /\ ev.body = None

\* C4: every received inbound event reaches exactly one of the five outcomes
\* and then ends with the acknowledgement (status 204); the gates are
\* consulted in the order VIP, guard, FAQ, generation, the outcome is the one
\* of the first gate that decides, and no event stays in RECEIVED forever.
C4_EveryEventEndsInOneOutcome ==
    /\ [] C4_OneOutcomeInOrder
    /\ (pc = "vip" /\ ev.outcome = "RECEIVED")
          ~> (pc = "done" /\ ev.outcome \in Outcomes /\ ev.status = 204)

C4_Witness ==
    /\ pc = "done" /\ IsWebhookEvent /\ ev.outcome = "GENERATION-FAILED"
    /\ ev.status = 204 /\ Count(ev.calls, PRIMARY_MODEL) = 2

\* a handled webhook event of a sender outside the VIP set
IsGuardedEvent ==
    pc = "done" /\ IsWebhookEvent /\ ev.sender \notin IMESSAGE_VIP_EXCLUDE

\* C5 (as claimed): for every non-VIP inbound event too_soon and is_duplicate
\* are each called exactly once, too_soon first, also when too_soon returned
\* true; the event is suppressed if either returns true.
C5_BothGuardsCalledOnce ==
    IsGuardedEvent =>
       /\ Count(ev.calls, "too_soon") = 1
       /\ Count(ev.calls, "is_duplicate") = 1
       /\ ev.calls[3] = "too_soon" /\ ev.calls[4] = "is_duplicate"
       /\ (ev.outcome = "GUARD-SUPPRESSED") = (ev.r_rate \/ ev.r_dup)

\* C5 (amended): for every non-VIP inbound event too_soon is called exactly
\* once; is_duplicate is called exactly once, after it, when too_soon returned
\* false, and not at all when too_soon returned true; the event is suppressed
\* if either returns true.
C5_DupCheckOnlyAfterRatePass ==
    IsGuardedEvent =>
       /\ Count(ev.calls, "too_soon") = 1
       /\ ev.calls[3] = "too_soon"
       /\ Count(ev.calls, "is_duplicate") = (IF ev.r_rate THEN 0 ELSE 1)
       /\ ~ev.r_rate => ev.calls[4] = "is_duplicate"
       /\ ev.r_rate => ev.t_dup = -1 /\ ev.calls = SubSeq(GateOrder, 1, 3)
       /\ (ev.outcome = "GUARD-SUPPRESSED") = (ev.r_rate \/ ev.r_dup)

C5_Witness ==
    /\ IsGuardedEvent /\ ev.r_rate /\ ~Has(ev.calls, "is_duplicate")
    /\ ev.outcome = "GUARD-SUPPRESSED" /\ ~ev.fresh


\* the handled events in which too_soon(S) was called, oldest first
RateCalls(S) == SelectSeq(hist, LAMBDA h : h.sender = S /\ h.t_rate >= 0)

\* C6: for every sender S, two consecutive too_soon(S) calls less than
\* RATE_WINDOW_SEC apart (the first being S's first) return false then true;
\* the call that returns true leaves S's last-seen timestamp unchanged, and a
\* third call made once RATE_WINDOW_SEC has elapsed since the first returns
\* false.
C6_RateGuardFalseThenTrue ==
    \A S \in Senders :
       LET c == RateCalls(S) IN
       Len(c) >= 2 /\ c[2].t_rate - c[1].t_rate < RATE_WINDOW_SEC =>
          /\ ~c[1].r_rate
          /\ c[2].r_rate
          /\ c[2].ls_after = c[1].t_rate
          /\ Len(c) >= 3 /\ c[3].t_rate - c[1].t_rate >= RATE_WINDOW_SEC
                => ~c[3].r_rate

\* C7: the first-ever message from a sender is never rate-limited: too_soon
\* returns false for a sender with no prior record, at every current time and
\* for every configured rate window.
C7_FirstMessageNeverRateLimited ==
    IsWebhookEvent /\ ev.t_rate >= 0 /\ ev.fresh => ~ev.r_rate

\* hist[i] is an earlier event of ev's sender with the same normalized text
SameKeyBefore(i) ==
    /\ i < Len(hist)
    /\ hist[i].sender = ev.sender
    /\ Norm(hist[i].text) = Norm(ev.text)

\* C8: a sender's last-seen timestamp is updated only by events that pass
\* both guards: an event suppressed as a duplicate of an earlier accepted
\* message leaves the timestamp as it was, so it does not restart the
\* sender's rate window.
C8_DuplicateLeavesLastSeen ==
    ( /\ IsGuardedEvent /\ ev.r_dup
      /\ \E i \in 1..Len(hist) :
            SameKeyBefore(i) /\ hist[i].t_dup >= 0 /\ ~hist[i].r_dup )
    => ev.ls_after = ev.ls_before

\* C9: is_duplicate(S, text) returns true only when an earlier is_duplicate
\* call for the same S, with a text equal after trimming and lowercasing,
\* recorded a timestamp less than DUP_WINDOW_SEC ago.
C9_DuplicateOnlyAfterEarlierRecord ==
    IsGuardedEvent /\ ev.t_dup >= 0 /\ ev.r_dup =>
       \E i \in 1..Len(hist) :
          /\ SameKeyBefore(i)
          /\ hist[i].t_dup >= 0 /\ ~hist[i].r_dup
          /\ ev.t_dup - hist[i].t_dup < DUP_WINDOW_SEC

\* when the guards of event e last read the clock
GuardTime(e) == IF e.t_dup >= 0 THEN e.t_dup ELSE e.t_rate

\* C10: when a non-VIP sender sends the same text (equal after normalization)
\* twice within the duplicate window (the guards of the second event run less
\* than DUP_WINDOW_SEC after the first event's duplicate check) and the first
\* event was answered (send_imessage returned), the second event is
\* guard-suppressed: the two events add two rows to the inbound log and one
\* row to the outbound log.
C10_SameTextTwiceSuppressed ==
    IsGuardedEvent =>
       \A i \in 1..Len(hist) :
          ( /\ SameKeyBefore(i)
            /\ hist[i].sent_ok
            /\ GuardTime(ev) - hist[i].t_dup < DUP_WINDOW_SEC )
          => /\ ev.outcome = "GUARD-SUPPRESSED"
             /\ ~Has(ev.calls, "send_imessage")
             /\ hist[i].in_rows + ev.in_rows = 2
             /\ hist[i].out_rows + ev.out_rows = 1
             /\ Len(hist) = 2 => Len(inbound_log) = 2 /\ Len(outbound_log) = 1

C10_Witness ==
    /\ IsGuardedEvent /\ ev.r_dup /\ ev.outcome = "GUARD-SUPPRESSED"
    /\ Len(hist) = 2 /\ SameKeyBefore(1) /\ hist[1].sent_ok
    /\ hist[1].text # ev.text
    /\ Len(inbound_log) = 2 /\ Len(outbound_log) = 1

\* ----------------------------------------------------------------- C11
\* position of a model in models_to_try
ModelIx(model) == CHOOSE i \in 1..Len(models_to_try) : models_to_try[i] = model

\* which attempt on its model the i-th provider call of the event is
AttemptNo(t, i) == Cardinality({ j \in 1..i : t[j].model = t[i].model })

\* the error ask_openai keeps in last_err after a call answered r
ErrOf(r) == IF r = "empty" THEN "APIError" ELSE r

\* the retry policy over the provider calls of the event in progress
C11_RetryPolicy ==
    IsWebhookEvent =>
       LET t == ev.tries IN
       /\ Len(t) <= 2 * max_retries
       /\ Len(t) >= 1 => t[1].model = PRIMARY_MODEL
       /\ \A i \in 1..Len(t) : AttemptNo(t, i) <= max_retries
       /\ \A i \in 1..(Len(t) - 1) :
             /\ t[i].r # "text"
             /\ ModelIx(t[i+1].model) >= ModelIx(t[i].model)
             /\ IF t[i].r \in { "RateLimitError", "APITimeoutError" }
                   /\ AttemptNo(t, i) < max_retries
                THEN t[i+1].model = t[i].model
                ELSE ModelIx(t[i+1].model) = ModelIx(t[i].model) + 1
       /\ pc = "send_gen" =>
             /\ Len(t) >= 1 /\ t[Len(t)].r = "text"
             /\ cur.reply.len > 0
       /\ ev.outcome = "GENERATION-FAILED" =>
             /\ Len(t) >= 1 /\ t[Len(t)].r # "text"
             /\ ev.err = ErrOf(t[Len(t)].r)
             /\ ~Has(ev.calls, "send_imessage")

\* C11: ask_openai tries the primary model before the fallback and never
\* returns to an earlier model; after a transient error it retries the same
\* model, at most max_retries attempts per model; after a non-transient error
\* it moves to the next model at once; it always terminates after at most
\* 2*max_retries provider calls, returning a non-empty text or raising the
\* last error.
C11_AskOpenaiBoundedRetries ==
    /\ []C11_RetryPolicy
    /\ (pc = "ask") ~> (pc \in { "send_gen", "done" })

C11_Witness ==
    /\ pc = "done" /\ IsWebhookEvent /\ ev.outcome = "GENERATION-FAILED"
    /\ Len(ev.tries) = 2 * max_retries
    /\ ev.tries[2].r = "RateLimitError" /\ ev.tries[4].r = "APITimeoutError"
    /\ ev.err = "APITimeoutError"

\* ----------------------------------------------------------------- C12
\* C12: in ask_openai an empty response text is a retryable failure of that
\* attempt: when attempts remain for the current model, the next attempt is
\* made against the same model, as after a rate-limit or timeout error.
C12_EmptyResponseRetried ==
    IsWebhookEvent =>
       LET t == ev.tries IN
       /\ \A i \in 1..(Len(t) - 1) :
             t[i].r = "empty" /\ AttemptNo(t, i) < max_retries
                => t[i+1].model = t[i].model
       /\ ev.outcome = "GENERATION-FAILED" =>
             ~(t[Len(t)].r = "empty" /\ AttemptNo(t, Len(t)) < max_retries)

\* ----------------------------------------------------------------- C13
\* every attempt on the primary model timed out and a later attempt, on the
\* fallback model, returned a text
PrimaryTimedOutFallbackAnswered ==
    LET t == ev.tries IN
    /\ Len(t) > max_retries
    /\ \A i \in 1..max_retries :
          t[i].model = PRIMARY_MODEL /\ t[i].r = "APITimeoutError"
    /\ t[Len(t)].model = FALLBACK_MODEL /\ t[Len(t)].r = "text"

\* C13: when the generative fallback is invoked, every attempt on the primary
\* model fails with a timeout and a later attempt on the fallback model
\* succeeds, the event ends GENERATED-ANSWERED and the single reply sent is
\* the fallback model's text.
C13_FallbackTextIsTheReply ==
    (pc = "done" /\ IsWebhookEvent /\ PrimaryTimedOutFallbackAnswered) =>
       /\ ev.outcome = "GENERATED-ANSWERED"
       /\ ev.status = 204
       /\ Count(ev.calls, "send_imessage") = 1
       /\ ev.body.kind = "gen" /\ ev.body.model = FALLBACK_MODEL
       /\ ev.out_rows = (IF ev.gw = "ok" THEN 1 ELSE 0)
       /\ ev.gw = "ok" =>
             outbound_log[Len(outbound_log)] = [to |-> ev.sender, body |-> ev.body]

C13_Witness ==
    /\ pc = "done" /\ IsWebhookEvent /\ PrimaryTimedOutFallbackAnswered
    /\ Len(ev.tries) = max_retries + 2
    /\ ev.gw = "ok" /\ ev.sent_ok

\* ----------------------------------------------------------------- C14
\* the acknowledgement a handler gives an event it has dealt with
NormalAck(endpoint) == IF endpoint = "webhook" THEN 204 ELSE 200

\* C14: when all model attempts are exhausted or fail, the event ends
\* GENERATION-FAILED: no gateway send is made, the outbound log is unchanged,
\* and the handler still returns its normal acknowledgement (the error is
\* swallowed, never propagated to the caller).
C14_GenerationFailureSwallowed ==
    (pc = "done" /\ ev.outcome = "GENERATION-FAILED") =>
       /\ ~Has(ev.calls, "send_imessage") /\ ~Has(ev.calls, "send_via_mac")
       /\ ev.out_rows = 0 /\ ~ev.sent_ok
       /\ ev.status = NormalAck(ev.endpoint)

\* ----------------------------------------------------------------- C15
\* C15: every generated reply imessage_webhook hands to send_imessage has
\* length at most 500: a generated text longer than 500 characters is sent as
\* its first 497 characters followed by "...", and a text of 500 characters
\* or fewer is sent unchanged.
C15_GeneratedReplyCapped ==
    (IsWebhookEvent /\ Has(ev.calls, "send_imessage") /\ ev.body.kind = "gen") =>
       /\ ev.body.len <= 500
       /\ IF ev.body.full > 500
          THEN ev.body.keep = 497 /\ ev.body.ellipsis /\ ev.body.len = 497 + 3
          ELSE ev.body.keep = ev.body.full /\ ~ev.body.ellipsis
                                          /\ ev.body.len = ev.body.full
       /\ ev.gw = "ok" => outbound_log[Len(outbound_log)].body = ev.body

C15_Witness ==
    /\ IsWebhookEvent /\ Has(ev.calls, "send_imessage") /\ ev.body.kind = "gen"
    /\ ev.body.full = 501 /\ ev.body.len = 500 /\ ev.gw = "ok"
    /\ \E i \in 1..Len(hist) - 1 : hist[i].sent_ok

\* ----------------------------------------------------------------- C16
\* the gateway accepted the POST (raise_for_status passed)
GatewayAccepted(g) == g \in { "ok", "bad_body" }

\* C16: send_imessage appends exactly one row to the outbound log when the
\* gateway call succeeds and nothing when it fails, so the outbound log row
\* count equals the number of successful gateway sends.
C16_OneRowPerSuccessfulSend ==
    (pc = "done" /\ IsWebhookEvent /\ Has(ev.calls, "send_imessage")) =>
       /\ ev.out_rows = (IF GatewayAccepted(ev.gw) THEN 1 ELSE 0)
       /\ GatewayAccepted(ev.gw) =>
             outbound_log[Len(outbound_log)] = [to |-> ev.sender, body |-> ev.body]

\* ----------------------------------------------------------------- C17
\* the rows of [start, end) that have a phone value
RowsWithPhone ==
    { k \in bulk.start..(bulk.end - 1) : bulk.rows[k + 1].phone # "" }

\* C17: in bulk_send a send error on row i is caught and logged and the loop
\* proceeds to row i+1: when bulk_send is over, every row of [start, end)
\* with a phone value has had its send attempt, whatever failed before it.
C17_BatchContinuesAfterSendError ==
    (pc = "bulk_done" /\ ~bulk.dry_run) =>
       /\ bulk.raised = ""
       /\ \A k \in RowsWithPhone : Has(bulk.sends, k)

\* ----------------------------------------------------------------- C18
\* the printed lines that say what
Lines(what) == SelectSeq(bulk.printed, LAMBDA l : l.what = what)

\* C18: bulk_send in dry-run mode prints exactly one would-send line for each
\* selected row that has a phone value, makes no gateway call and adds no row
\* to the outbound log; a row with no phone value is skipped without ending
\* the batch.
C18_DryRunPrintsAndSendsNothing ==
    (pc = "bulk_done" /\ bulk.dry_run) =>
       /\ bulk.raised = ""
       /\ bulk.sends = <<>> /\ outbound_log = <<>>
       /\ { l.i : l \in { Lines("WOULD SEND")[j] : j \in 1..Len(Lines("WOULD SEND")) } }
             = RowsWithPhone
       /\ Len(Lines("WOULD SEND")) = Cardinality(RowsWithPhone)
       /\ Len(bulk.printed) = Max(bulk.end - bulk.start, 0)
       /\ Lines("SENT") = <<>>

C18_Witness ==
    /\ pc = "bulk_done" /\ bulk.dry_run
    /\ bulk.end - bulk.start = 3
    /\ bulk.rows[2].phone = ""
    /\ Len(Lines("WOULD SEND")) = 2 /\ Len(Lines("SKIP")) = 1
    /\ bulk.printed[3].what = "WOULD SEND"

\* ----------------------------------------------------------------- C19
\* the order the categories are said to be tried in
ClaimedOrder ==
    << "money_for", "amount", "mex_card", "about_andree", "tax", "deadline",
       "how_donate", "share", "thanks", "greeting" >>

\* the categories one of whose patterns matches the normalized text
Matching(text) ==
    { c \in 1..Len(ClaimedOrder) :
         \E i \in 1..Len(FaqOrder) :
            /\ FaqOrder[i].cat = ClaimedOrder[c]
            /\ \E patt \in FaqOrder[i].patts : Match(patt, Norm(text)) }

\* the reply is that of the first matching category, none when none matches
FirstMatchWins ==
    LET hit == Matching(cur.text) IN
    IF hit = {}
    THEN cur.reply = None
    ELSE /\ cur.reply # None
         /\ cur.reply.cat = ClaimedOrder[CHOOSE c \in hit : \A d \in hit : c <= d]

C20_GuardsMutuallyExclusive ==
    (pc = "threads" /\ threads[1].sender = threads[2].sender) =>
       /\ ( /\ threads[1].rate # "none" /\ threads[2].rate # "none"
            /\ threads[1].t_rate - threads[2].t_rate < RATE_WINDOW_SEC
            /\ threads[2].t_rate - threads[1].t_rate < RATE_WINDOW_SEC )
          => ~(threads[1].rate = "pass" /\ threads[2].rate = "pass")
       /\ ( /\ threads[1].dup # "none" /\ threads[2].dup # "none"
            /\ Norm(threads[1].text) = Norm(threads[2].text)
            /\ threads[1].t_dup - threads[2].t_dup < DUP_WINDOW_SEC
            /\ threads[2].t_dup - threads[1].t_dup < DUP_WINDOW_SEC )
          => ~(threads[1].dup = "pass" /\ threads[2].dup = "pass")

\* ----------------------------------------------------------------- C21
\* C21: an inbound webhook payload that parses but has an empty sender or an
\* empty text is acknowledged with no further action: the inbound log, the
\* outbound log and both anti-spam maps are unchanged, and no model or
\* gateway call is made.
C21_EmptyPayloadOnlyAcknowledged ==
    ( /\ pc = "done" /\ ev.endpoint = "webhook"
      /\ ev.outcome # "BAD-JSON"
      /\ ev.sender = "" \/ ev.text = <<>> )
    => /\ ev.status = 204
       /\ ev.calls = <<>> /\ ev.tries = <<>> /\ ev.gw = "none"
       /\ ev.pre = Snapshot

\* ----------------------------------------------------------------- C22
\* the event recorded as e passed both guards and its reply failed: no text
\* was generated, or send_imessage raised
PassedGuardsReplyFailed(e) ==
    /\ e.t_rate >= 0 /\ ~e.r_rate
    /\ e.t_dup >= 0 /\ ~e.r_dup
    /\ ~e.sent_ok

\* C22: guard state is recorded before the reply is attempted and is never
\* rolled back: when an event passes both guards but its reply fails
\* (generation failure or gateway send failure), the sender's last-seen
\* timestamp and the (sender, normalized text) timestamp stay updated, so the
\* same text sent again by that sender within the duplicate window is
\* suppressed and gets no reply.
C22_GuardStateKeptWhenReplyFails ==
    IsGuardedEvent =>
       /\ PassedGuardsReplyFailed(ev) =>
             /\ ev.sender \in DOMAIN _last_seen_ts
             /\ _last_seen_ts[ev.sender] = ev.t_rate
             /\ dup_key(ev.sender, ev.text) \in DOMAIN _last_seen_msg
             /\ _last_seen_msg[dup_key(ev.sender, ev.text)] = ev.t_dup
       /\ \A i \in 1..Len(hist) :
             ( /\ SameKeyBefore(i)
               /\ PassedGuardsReplyFailed(hist[i])
               /\ GuardTime(ev) - hist[i].t_dup < DUP_WINDOW_SEC )
             => /\ ev.outcome = "GUARD-SUPPRESSED"
                /\ ~Has(ev.calls, "send_imessage")
                /\ ev.out_rows = 0 /\ ~ev.sent_ok

C22_Witness ==
    /\ IsGuardedEvent /\ ev.outcome = "GUARD-SUPPRESSED" /\ ev.r_dup
    /\ Len(hist) = 2 /\ SameKeyBefore(1) /\ PassedGuardsReplyFailed(hist[1])
    /\ GuardTime(ev) - hist[1].t_dup < DUP_WINDOW_SEC
    /\ outbound_log = <<>>

====
